---- MODULE Spec2Model ----
(***************************************************************************)
(* A model of go-yaml-jsonpointer (package yptr): the pointer tokenizer,   *)
(* the per-token matcher, the recursive resolver (FindAll / Find) and the  *)
(* in-place inserter (Insert), over yaml.Node trees.                       *)
(*                                                                         *)
(* Strings are sequences of one-character strings, so that splitting a     *)
(* pointer, strconv.Atoi and the parse of a ~{...} predicate are computed  *)
(* as the code computes them.  A *yaml.Node is a path of child indexes     *)
(* from the node it was obtained from; the tree itself is a value.         *)
(***************************************************************************)
EXTENDS Integers, Sequences, FiniteSets, TLC

VARIABLES root, op, ptr, value, pre, err, res, reps

vars == <<root, op, ptr, value, pre, err, res, reps>>

\* ------------------------------------------------------------------ bounds

\* The longest pointer, in tokens, that a caller passes.
MaxToks == 2

\* How often a caller repeats a successful Insert with the same arguments.
MaxRepeat == 1

\* ---------------------------------------------------------------- helpers

Min(S) == CHOOSE x \in S : \A y \in S : x <= y

HasPrefix(s, p) == Len(s) >= Len(p) /\ SubSeq(s, 1, Len(p)) = p

\* slices.Insert(s, i, n) with a 1-based position.
InsertAt(s, pos, n) == SubSeq(s, 1, pos - 1) \o <<n>> \o SubSeq(s, pos, Len(s))

\* ----------------------------------------------------------------- errors
\* An error is the chain of its layers, outermost first; nil is the empty
\* chain.  fmt.Errorf with %w puts a layer in front of the wrapped chain.

Nil == <<>>

ErrTooManyResults == "too many results"
ErrNotFound == "not found"
ErrSyntax == "JSON pointer must be empty or start with a \"/"
ErrEmptyPointer == "invalid empty pointer"
ErrOutOfBounds == "out of bounds"
ErrAtoi == "strconv.Atoi"
ErrCannotInsert == "cannot insert node type"
ErrUnhandled == "unhandled node type"
ErrInvariant == "yaml.Node invariant broken"
ErrBadState == "bad state while finding"
ErrYaml == "yaml"
\* A run-time panic (index out of range) ends the call without a return value.
Panic == "panic: index out of range"

Errorf(msg) == <<msg>>

Wrapf(msg, e) == <<msg>> \o e

ErrorsIs(e, target) == \E i \in 1..Len(e) : e[i] = target

\* ------------------------------------------------------------------ nodes

Scalar(v) == [kind |-> "Scalar", tag |-> "!!str", value |-> v, content |-> <<>>]

Mapping(c) == [kind |-> "Mapping", tag |-> "!!map", value |-> <<>>, content |-> c]

Sequence(c) == [kind |-> "Sequence", tag |-> "!!seq", value |-> <<>>, content |-> c]

Document(n) == [kind |-> "Document", tag |-> "", value |-> <<>>, content |-> <<n>>]

\* The node match returns for "-": yaml.Node{Kind: yaml.ScalarNode}.
DummyNode == [kind |-> "Scalar", tag |-> "", value |-> <<>>, content |-> <<>>]

\* The pointer to that node: it is no child of any node.
DummyPtr == <<0>>

\* The node a pointer (a path of child indexes) refers to.
RECURSIVE At(_, _)
At(n, p) ==
    IF p = <<>> THEN n
    ELSE IF Head(p) = 0 THEN DummyNode
    ELSE At(n.content[Head(p)], Tail(p))

\* The tree after the node a pointer refers to has been assigned m.
RECURSIVE Put(_, _, _)
Put(n, p, m) ==
    IF p = <<>> THEN m
    ELSE [n EXCEPT !.content[Head(p)] = Put(@, Tail(p), m)]

\* -------------------------------------------------------------- tokenizer

\* Mutant: any "/" in the pointer passes for a leading one.
ValidateSeparatorAnywhere(jsonPointer) ==
    IF jsonPointer = <<>> THEN Nil
    ELSE IF ~\E i \in 1..Len(jsonPointer) : jsonPointer[i] = "/" THEN Errorf(ErrSyntax)
    ELSE Nil

ValidateJSONPointer(jsonPointer) ==
    IF jsonPointer = <<>> THEN Nil
    ELSE IF ~HasPrefix(jsonPointer, <<"/">>) THEN Errorf(ErrSyntax)
    ELSE Nil

\* strings.Split(s, "/"), by a scan that closes a component at each "/".
RECURSIVE SplitFrom(_, _, _)
SplitFrom(s, cur, acc) ==
    IF s = <<>> THEN Append(acc, cur)
    ELSE IF Head(s) = "/" THEN SplitFrom(Tail(s), <<>>, Append(acc, cur))
    ELSE SplitFrom(Tail(s), Append(cur, Head(s)), acc)

Split(s) == SplitFrom(s, <<>>, <<>>)

jsonPointerToTokens(jsonPointer) ==
    IF jsonPointer = <<>> THEN [toks |-> <<>>, err |-> Nil]
    ELSE IF ValidateJSONPointer(jsonPointer) # Nil
         THEN [toks |-> <<>>, err |-> ValidateJSONPointer(jsonPointer)]
    ELSE [toks |-> Tail(Split(jsonPointer)), err |-> Nil]

\* ------------------------------------------------------------ strconv.Atoi

Digits == <<"0", "1", "2", "3", "4", "5", "6", "7", "8", "9">>

IsDigit(ch) == \E d \in 1..10 : Digits[d] = ch

DigitVal(ch) == (CHOOSE d \in 1..10 : Digits[d] = ch) - 1

RECURSIVE DigitsVal(_, _)
DigitsVal(s, acc) ==
    IF s = <<>> THEN acc ELSE DigitsVal(Tail(s), 10 * acc + DigitVal(Head(s)))

\* An optional sign, then one or more decimal digits; anything else fails.
Atoi(s) ==
    LET signed == s # <<>> /\ Head(s) \in {"+", "-"}
        body == IF signed THEN Tail(s) ELSE s
    IN  IF body = <<>> \/ \E i \in 1..Len(body) : ~IsDigit(body[i])
        THEN [ok |-> FALSE, val |-> 0]
        ELSE [ok |-> TRUE,
              val |-> IF signed /\ Head(s) = "-" THEN 0 - DigitsVal(body, 0)
                      ELSE DigitsVal(body, 0)]

\* ----------------------------------------------------------- yaml.Unmarshal
\* The parse of an inline predicate, for the flow mappings with double-quoted
\* keys and values the pointers of this model use: {} and {"k":v,...} with v a
\* double-quoted string or such a mapping.  Other text is a parse error.

ParseFail == [ok |-> FALSE, node |-> DummyNode, next |-> 0]

ParseString(s, i) ==
    IF i > Len(s) \/ s[i] # "\"" THEN ParseFail
    ELSE LET closes == {j \in (i + 1)..Len(s) : s[j] = "\""} IN
         IF closes = {} THEN ParseFail
         ELSE [ok |-> TRUE,
               node |-> Scalar(SubSeq(s, i + 1, Min(closes) - 1)),
               next |-> Min(closes) + 1]

\* ParsePairs reads one "key":value pair and what follows it (a comma and the
\* rest of the pairs, or the closing brace).
RECURSIVE ParseValue(_, _)
RECURSIVE ParsePairs(_, _, _)
RECURSIVE ParsePairsKey(_, _, _)
RECURSIVE ParsePairsValue(_, _, _, _)
ParseValue(s, i) ==
    IF i > Len(s) THEN ParseFail
    ELSE IF s[i] = "\"" THEN ParseString(s, i)
    ELSE IF s[i] = "{" THEN
        IF i + 1 <= Len(s) /\ s[i + 1] = "}"
        THEN [ok |-> TRUE, node |-> Mapping(<<>>), next |-> i + 2]
        ELSE ParsePairs(s, i + 1, <<>>)
    ELSE ParseFail

ParsePairs(s, i, acc) == ParsePairsKey(s, acc, ParseString(s, i))

ParsePairsKey(s, acc, k) ==
    IF ~k.ok \/ k.next > Len(s) \/ s[k.next] # ":" THEN ParseFail
    ELSE ParsePairsValue(s, acc, k, ParseValue(s, k.next + 1))

ParsePairsValue(s, acc, k, v) ==
    IF ~v.ok \/ v.next > Len(s) THEN ParseFail
    ELSE IF s[v.next] = ","
         THEN ParsePairs(s, v.next + 1, acc \o <<k.node, v.node>>)
    ELSE IF s[v.next] = "}"
         THEN [ok |-> TRUE, node |-> Mapping(acc \o <<k.node, v.node>>),
               next |-> v.next + 1]
    ELSE ParseFail

\* The whole text must be one value.
UnmarshalResult(s, r) ==
    IF r.ok /\ r.next = Len(s) + 1
    THEN [node |-> Document(r.node), err |-> Nil]
    ELSE [node |-> DummyNode, err |-> Errorf(ErrYaml)]

Unmarshal(s) == UnmarshalResult(s, ParseValue(s, 1))

\* ------------------------------------------------------- subset predicate

RECURSIVE isTreeSubset(_, _)
isTreeSubset(a, b) ==
    CASE a.kind = "Document" -> isTreeSubset(a.content[1], b)
      [] a.kind = "Scalar" -> b.kind = "Scalar" /\ a.value = b.value
      [] a.kind = "Mapping" ->
            /\ b.kind = "Mapping"
            /\ \A i \in 1..(Len(a.content) \div 2) :
                 \E j \in 1..(Len(b.content) \div 2) :
                    /\ b.content[2 * j - 1].value = a.content[2 * i - 1].value
                    /\ isTreeSubset(a.content[2 * i], b.content[2 * j])
      [] a.kind = "Sequence" ->
            /\ b.kind = "Sequence"
            /\ Len(a.content) = Len(b.content)
            /\ \A i \in 1..Len(a.content) : isTreeSubset(a.content[i], b.content[i])
      [] OTHER -> FALSE

treeSubsetPred(a, b) == isTreeSubset(a, b)

\* ---------------------------------------------------------------- matcher
\* A match result is the list of pointers to the matched nodes, and an error.

\* filter: the pointers to the nodes the predicate holds of, in their order.
RECURSIVE filterFrom(_, _, _, _)
filterFrom(nodes, a, i, acc) ==
    IF i > Len(nodes) THEN acc
    ELSE filterFrom(nodes, a, i + 1,
                    IF treeSubsetPred(a, nodes[i]) THEN Append(acc, <<i>>) ELSE acc)

\* Mutant: no node passing the predicate is reported as not found.
filterOrNotFound(nodes, a) ==
    IF filterFrom(nodes, a, 1, <<>>) = <<>>
    THEN [next |-> <<>>, err |-> Errorf(ErrNotFound)]
    ELSE [next |-> filterFrom(nodes, a, 1, <<>>), err |-> Nil]

filter(nodes, a) == [next |-> filterFrom(nodes, a, 1, <<>>), err |-> Nil]

\* The scan of a mapping's pairs for the key tok: the index of the value of
\* the first pair that has it, 0 when none has.
RECURSIVE scanKeys(_, _, _)
scanKeys(c, tok, i) ==
    IF i >= Len(c) THEN 0
    ELSE IF tok = c[i].value THEN i + 1
    ELSE scanKeys(c, tok, i + 2)

\* match on a mapping, given what the scan found.
matchMapping(c, hit) ==
    IF Len(c) % 2 # 0 THEN [next |-> <<>>, err |-> Errorf(ErrInvariant)]
    ELSE IF hit # 0 THEN [next |-> << <<hit>> >>, err |-> Nil]
    ELSE [next |-> <<>>, err |-> Wrapf("token", Errorf(ErrNotFound))]

\* match on a sequence with a ~{...} token, given the parse of its text.
matchSubtree(c, m) ==
    IF m.err # Nil THEN [next |-> <<>>, err |-> m.err] ELSE filter(c, m.node)

\* match on a sequence with an index token, given strconv.Atoi's result.
matchIndex(c, a) ==
    IF ~a.ok THEN [next |-> <<>>, err |-> Errorf(ErrAtoi)]
    ELSE IF a.val < 0 \/ a.val >= Len(c)
         THEN [next |-> <<>>, err |-> Errorf(ErrOutOfBounds)]
    ELSE [next |-> << <<a.val + 1>> >>, err |-> Nil]

\* match on a document node, given the match on its child.
matchDocument(r) ==
    [next |-> [i \in 1..Len(r.next) |-> <<1>> \o r.next[i]], err |-> r.err]

RECURSIVE match(_, _)
match(n, tok) ==
    CASE n.kind = "Mapping" ->
            matchMapping(n.content,
                         IF Len(n.content) % 2 # 0 THEN 0 ELSE scanKeys(n.content, tok, 1))
      [] n.kind = "Sequence" ->
            IF HasPrefix(tok, <<"~", "{">>) THEN matchSubtree(n.content, Unmarshal(Tail(tok)))
            ELSE IF tok = <<"-">> THEN [next |-> <<DummyPtr>>, err |-> Nil]
            ELSE matchIndex(n.content, Atoi(tok))
      [] n.kind = "Document" -> matchDocument(match(n.content[1], tok))
      [] OTHER -> [next |-> <<>>, err |-> Errorf(ErrUnhandled)]

\* --------------------------------------------------------------- resolver

RECURSIVE find(_, _)
RECURSIVE findNext(_, _, _)
RECURSIVE findEach(_, _, _, _)
RECURSIVE findAppend(_, _, _, _, _)
find(n, toks) == findNext(n, toks, match(n, toks[1]))

\* find after its call of match.
findNext(n, toks, m) ==
    IF m.err # Nil THEN [res |-> <<>>, err |-> m.err]
    ELSE IF Len(toks) = 1 THEN [res |-> m.next, err |-> Nil]
    ELSE findEach(n, m.next, Tail(toks), <<>>)

\* The loop of find over the matches of the first token.
findEach(n, next, toks, acc) ==
    IF next = <<>> THEN [res |-> acc, err |-> Nil]
    ELSE findAppend(n, next, toks, acc, find(At(n, Head(next)), toks))

\* One turn of that loop after its recursive call.
findAppend(n, next, toks, acc, f) ==
    IF f.err # Nil THEN [res |-> <<>>, err |-> f.err]
    ELSE findEach(n, Tail(next), toks,
                  acc \o [i \in 1..Len(f.res) |-> Head(next) \o f.res[i]])

\* FindAll after its call of find.
FindAllResult(f) ==
    IF f.err # Nil THEN [res |-> <<>>, err |-> Wrapf("pointer", f.err)]
    ELSE [res |-> f.res, err |-> Nil]

\* FindAll after its call of jsonPointerToTokens.
FindAllTokens(n, t) ==
    IF t.err # Nil THEN [res |-> <<>>, err |-> t.err]
    ELSE FindAllResult(find(n, t.toks))

FindAll(n, p) ==
    IF p = <<>> THEN [res |-> <<>>, err |-> Errorf(ErrEmptyPointer)]
    ELSE FindAllTokens(n, jsonPointerToTokens(p))

\* Find after its call of FindAll.
FindResult(f) ==
    IF f.err # Nil THEN [res |-> <<>>, err |-> f.err]
    ELSE IF Len(f.res) > 1
         THEN [res |-> <<>>, err |-> Wrapf("got matches", Errorf(ErrTooManyResults))]
    ELSE IF Len(f.res) = 0 THEN [res |-> <<>>, err |-> Errorf(ErrBadState)]
    ELSE [res |-> <<f.res[1]>>, err |-> Nil]

Find(n, p) == FindResult(FindAll(n, p))

\* --------------------------------------------------------------- inserter
\* An insert result is the node as the call leaves it (the code writes
\* through the pointer) and the error the call returns.

\* The position (1-based) at which sequenceInsertAt puts a node for tok.
landingPos(n, tok) ==
    IF tok = <<"-">> THEN Len(n.content) + 1 ELSE Atoi(tok).val + 1

\* Mutant: the node takes the place of the element at the index.
sequenceInsertAtIndexReplace(n, a, new) ==
    IF ~a.ok THEN [node |-> n, err |-> Errorf(ErrAtoi)]
    ELSE IF a.val < 0 \/ a.val >= Len(n.content)
         THEN [node |-> n, err |-> Errorf(ErrOutOfBounds)]
    ELSE [node |-> [n EXCEPT !.content[a.val + 1] = new], err |-> Nil]

\* sequenceInsertAt for a token other than "-", given strconv.Atoi's result.
sequenceInsertAtIndex(n, a, new) ==
    IF ~a.ok THEN [node |-> n, err |-> Errorf(ErrAtoi)]
    ELSE IF a.val < 0 \/ a.val >= Len(n.content)
         THEN [node |-> n, err |-> Errorf(ErrOutOfBounds)]
    ELSE [node |-> [n EXCEPT !.content = InsertAt(@, a.val + 1, new)], err |-> Nil]

\* Mutant: "-" puts the node in front of the elements.
sequenceInsertAtFront(n, tok, new) ==
    IF tok = <<"-">> THEN [node |-> [n EXCEPT !.content = <<new>> \o @], err |-> Nil]
    ELSE sequenceInsertAtIndex(n, Atoi(tok), new)

sequenceInsertAt(n, tok, new) ==
    IF tok = <<"-">> THEN [node |-> [n EXCEPT !.content = Append(@, new)], err |-> Nil]
    ELSE sequenceInsertAtIndex(n, Atoi(tok), new)

\* Mutant: a merge that overwrites the pairs the mapping has.
insertHereOverwrite(n, v) ==
    IF n.kind = "Mapping" /\ v.kind = "Mapping"
    THEN [node |-> [n EXCEPT !.content = v.content], err |-> Nil]
    ELSE IF n.kind = "Mapping" /\ Len(n.content) = 0
    THEN [node |-> v, err |-> Nil]
    ELSE [node |-> n, err |-> Errorf(ErrCannotInsert)]

\* Mutant: no replacement of an empty mapping by a value of another kind.
insertHereNoReplace(n, v) ==
    IF n.kind = "Mapping" /\ v.kind = "Mapping"
    THEN [node |-> [n EXCEPT !.content = @ \o v.content], err |-> Nil]
    ELSE [node |-> n, err |-> Errorf(ErrCannotInsert)]

\* The terminal case of insert (no token left).
insertHere(n, v) ==
    IF n.kind = "Mapping" /\ v.kind = "Mapping"
    THEN [node |-> [n EXCEPT !.content = @ \o v.content], err |-> Nil]
    ELSE IF n.kind = "Mapping" /\ Len(n.content) = 0
    THEN [node |-> v, err |-> Nil]
    ELSE [node |-> n, err |-> Errorf(ErrCannotInsert)]

\* sequenceInsert and mapInsert are modelled up to their tail call of insert:
\* each ends either with a result, or with the node `sub` that the tail call
\* works on and the place `at` of that node under `node`.
Done(r) == [done |-> TRUE, node |-> r.node, err |-> r.err, sub |-> DummyNode, at |-> <<>>]

Descend(n, at, sub) == [done |-> FALSE, node |-> n, err |-> Nil, sub |-> sub, at |-> at]

\* The mapping sequenceInsert puts in place of a missing element: {tok: {}}.
placeholder(tok) ==
    Mapping(<<[kind |-> "Scalar", tag |-> "!!str", value |-> tok, content |-> <<>>],
              Mapping(<<>>)>>)

\* sequenceInsert after it has stored the placeholder.
sequenceInsertNew(n, toks, a) ==
    IF a.err # Nil THEN Done(a)
    ELSE Descend(a.node, <<landingPos(n, toks[1])>>, placeholder(toks[2]))

\* sequenceInsert after its call of match.
sequenceInsertNext(n, toks, v, m) ==
    IF m.err # Nil THEN Done([node |-> n, err |-> m.err])
    ELSE IF Len(toks) = 1 THEN Done(sequenceInsertAt(n, toks[1], v))
    \* next[0] of an empty match list: index out of range.
    ELSE IF Len(m.next) = 0 THEN Done([node |-> n, err |-> Errorf(Panic)])
    ELSE IF At(n, m.next[1]).kind # "Scalar"
         THEN Descend(n, m.next[1], At(n, m.next[1]))
    \* insert an empty map and try again
    ELSE sequenceInsertNew(n, toks, sequenceInsertAt(n, toks[1], placeholder(toks[2])))

sequenceInsert(n, toks, v) == sequenceInsertNext(n, toks, v, match(n, toks[1]))

\* mapInsert after its call of match.
mapInsertNext(n, toks, v, m) ==
    IF m.err # Nil /\ ~ErrorsIs(m.err, ErrNotFound) THEN Done([node |-> n, err |-> m.err])
    ELSE IF ErrorsIs(m.err, ErrNotFound) THEN
        IF Len(toks) = 1
        THEN Done([node |-> [n EXCEPT !.content = @ \o
                        <<[kind |-> "Scalar", tag |-> "", value |-> toks[1],
                           content |-> <<>>], v>>],
                   err |-> Nil])
        \* insert an empty map and try again
        ELSE Descend([n EXCEPT !.content = @ \o
                        <<[kind |-> "Scalar", tag |-> "", value |-> toks[1],
                           content |-> <<>>], Mapping(<<>>)>>],
                     <<Len(n.content) + 2>>, Mapping(<<>>))
    ELSE Descend(n, m.next[1], At(n, m.next[1]))

mapInsert(n, toks, v) == mapInsertNext(n, toks, v, match(n, toks[1]))

\* insert up to the tail call of the function it dispatches to.
insertStep(n, toks, v) ==
    IF Len(toks) = 0 THEN Done(insertHere(n, v))
    ELSE CASE n.kind = "Sequence" -> sequenceInsert(n, toks, v)
           [] n.kind = "Mapping" -> mapInsert(n, toks, v)
           [] OTHER -> Done([node |-> n, err |-> Errorf(ErrUnhandled)])

\* The tree once the tail call has left the node at s.at as r.node.  The
\* tail call works on the node itself or, for the placeholder (stored by
\* value), on a copy that shares its children; in the second case it changes
\* only those children, so both read the same.
plug(s, r) == [node |-> Put(s.node, s.at, r.node), err |-> r.err]

RECURSIVE insert(_, _, _)
RECURSIVE resume(_, _, _)
insert(n, toks, v) == resume(insertStep(n, toks, v), toks, v)

resume(s, toks, v) ==
    IF s.done THEN [node |-> s.node, err |-> s.err]
    ELSE plug(s, insert(s.sub, Tail(toks), v))

\* skip document nodes
skipDocument(n) == IF n.kind = "Document" THEN n.content[1] ELSE n

\* Insert after its call of insert on the node under the document node.
InsertResult(n, r) ==
    [node |-> IF n.kind = "Document" THEN [n EXCEPT !.content = <<r.node>>] ELSE r.node,
     err |-> r.err]

\* Insert after its call of jsonPointerToTokens.
InsertTokens(n, t, v) ==
    IF t.err # Nil THEN [node |-> n, err |-> t.err]
    ELSE InsertResult(n, insert(skipDocument(n), t.toks, skipDocument(v)))

Insert(n, p, v) == InsertTokens(n, jsonPointerToTokens(p), v)

\* ------------------------------------------------------- documents, inputs

Str(c) == Scalar(<<c>>)

\* The one-character keys and scalars of the documents.
KeyA == Str("a")
KeyB == Str("b")

\* The text {"a":"x"}: a key that looks like a predicate without its "~".
BraceKey == <<"{", "\"", "a", "\"", ":", "\"", "x", "\"", "}">>

\* ~{"a":"x"}
PredAX == <<"~">> \o BraceKey

\* ~{"b":{"b":"x"}}
PredNested ==
    <<"~", "{", "\"", "b", "\"", ":", "{", "\"", "b", "\"", ":", "\"", "x", "\"", "}", "}">>

\* ~{ : a predicate whose text does not parse.
PredBad == <<"~", "{">>

\* a: {b: x, '{"a":"x"}': d},  b: [e, f]
DocPlain ==
    Document(Mapping(<<
        KeyA, Mapping(<<KeyB, Str("x"), Scalar(BraceKey), Str("d")>>),
        KeyB, Sequence(<<Str("e"), Str("f")>>)>>))

\* {a: x, b: y}, {a: x}, {b: {b: x, a: z}}
Items ==
    <<Mapping(<<KeyA, Str("x"), KeyB, Str("y")>>),
      Mapping(<<KeyA, Str("x")>>),
      Mapping(<<KeyB, Mapping(<<KeyB, Str("x"), KeyA, Str("z")>>)>>)>>

\* a: [the items],  b: {}
DocItems == Document(Mapping(<<KeyA, Sequence(Items), KeyB, Mapping(<<>>)>>))

\* [{a: x, b: y}, {a: x}, e, {b: {b: x, a: z}}], passed without its document node
SeqRoot == Sequence(<<Items[1], Items[2], Str("e"), Items[3]>>)

\* [e, f], passed without its document node
SeqPlain == Sequence(<<Str("e"), Str("f")>>)

\* {}
DocEmpty == Document(Mapping(<<>>))

\* x
DocScalar == Document(Str("x"))

\* The documents a caller parses.
Trees == {DocPlain, DocItems, SeqRoot, SeqPlain, DocEmpty, DocScalar}

\* x,  a: y,  {} (without its document node),  [x]
Values ==
    {Document(Str("x")), Document(Mapping(<<KeyA, Str("y")>>)), Mapping(<<>>),
     Document(Sequence(<<Str("x")>>))}

Tokens ==
    {<<"a">>, <<"b">>, <<"0">>, <<"2">>, <<"-">>, <<"-", "1">>,
     PredAX, PredNested, PredBad, BraceKey}

RECURSIVE Join(_)
Join(toks) == IF toks = <<>> THEN <<>> ELSE <<"/">> \o Head(toks) \o Join(Tail(toks))

\* Pointers of up to MaxToks tokens, and some that do not start with "/".
Pointers ==
    {Join(ts) : ts \in UNION {[1..n -> Tokens] : n \in 0..MaxToks}}
        \cup {<<"a">>, <<"a", "/", "0">>, <<"-">>, <<"~", "/", "a">>}

\* ------------------------------------------------------------ state machine

Init ==
    /\ root \in Trees
    /\ op = "init"
    /\ ptr = <<>>
    /\ value = DummyNode
    /\ pre = root
    /\ err = Nil
    /\ res = <<>>
    /\ reps = 0

\* A caller validates a pointer before it touches the parsed document.
DoValidate ==
    /\ op = "init"
    /\ \E p \in Pointers :
        /\ op' = "ValidateJSONPointer"
        /\ ptr' = p
        /\ err' = ValidateJSONPointer(p)
    /\ res' = <<>>
    /\ pre' = root
    /\ value' = DummyNode
    /\ UNCHANGED <<root, reps>>

\* A caller resolves a pointer to all its matches.
DoFindAll ==
    /\ op = "init"
    /\ \E p \in Pointers :
        /\ op' = "FindAll"
        /\ ptr' = p
        /\ \E f \in {FindAll(root, p)} :
            /\ err' = f.err
            /\ res' = [i \in 1..Len(f.res) |-> At(root, f.res[i])]
    /\ pre' = root
    /\ value' = DummyNode
    /\ UNCHANGED <<root, reps>>

\* A caller resolves a pointer to its one match.
DoFind ==
    /\ op = "init"
    /\ \E p \in Pointers :
        /\ op' = "Find"
        /\ ptr' = p
        /\ \E f \in {Find(root, p)} :
            /\ err' = f.err
            /\ res' = [i \in 1..Len(f.res) |-> At(root, f.res[i])]
    /\ pre' = root
    /\ value' = DummyNode
    /\ UNCHANGED <<root, reps>>

\* A caller inserts a value into the document it parsed.
DoInsert ==
    /\ op = "init"
    /\ \E p \in Pointers, v \in Values :
        /\ op' = "Insert"
        /\ ptr' = p
        /\ value' = v
        /\ \E r \in {Insert(root, p, v)} :
            /\ root' = r.node
            /\ err' = r.err
    /\ pre' = root
    /\ res' = <<>>
    /\ reps' = 0

\* A caller repeats the Insert that has just succeeded.
DoInsertAgain ==
    /\ op = "Insert"
    /\ err = Nil
    /\ reps < MaxRepeat
    /\ \E r \in {Insert(root, ptr, value)} :
        /\ root' = r.node
        /\ err' = r.err
    /\ pre' = root
    /\ reps' = reps + 1
    /\ UNCHANGED <<op, ptr, value, res>>

Next == DoValidate \/ DoFindAll \/ DoFind \/ DoInsert \/ DoInsertAgain

Spec == Init /\ [][Next]_vars

\* ------------------------------------------------------------------ claims

\* The node under a document node.
Body(n) == IF n.kind = "Document" THEN n.content[1] ELSE n

\* The tokens of the pointer of the last call.
Toks == jsonPointerToTokens(ptr).toks

WellFormedPointer(p) == p = <<>> \/ Head(p) = "/"

\* C5: a non-empty pointer that does not start with "/" makes
\* ValidateJSONPointer, FindAll, Find and Insert fail with the syntax error,
\* and Insert leaves the tree as it was; for a pointer that is empty or starts
\* with "/" ValidateJSONPointer returns nil and the tokens are the pointer
\* split on "/", first component dropped, taken verbatim: joined again with a
\* "/" before each they give the pointer back, and none holds a "/".
C5_PointerSyntax ==
    /\ (op # "init" /\ ~WellFormedPointer(ptr)) =>
            /\ err = Errorf(ErrSyntax)
            /\ res = <<>>
            /\ root = pre
    /\ (op # "init" /\ WellFormedPointer(ptr)) =>
            /\ op = "ValidateJSONPointer" => err = Nil
            /\ err # Errorf(ErrSyntax)
            /\ jsonPointerToTokens(ptr).err = Nil
            /\ Join(Toks) = ptr
            /\ \A i \in 1..Len(Toks) : \A j \in 1..Len(Toks[i]) : Toks[i][j] # "/"

\* An Insert with a pointer that has a "/" but not in front was refused, and
\* the tree is as it was.
C5_Witness ==
    /\ op = "Insert"
    /\ ptr = <<"a", "/", "0">>
    /\ err = Errorf(ErrSyntax)
    /\ root = pre

\* C6: FindAll with the empty pointer fails with the empty-pointer error;
\* Insert with the empty pointer and a mapping value on a mapping root (both
\* under their document nodes) succeeds, and the root's content is its old
\* content followed by the value's pairs, none dropped, of even length.
C6_EmptyPointer ==
    /\ (op = "FindAll" /\ ptr = <<>>) => (err = Errorf(ErrEmptyPointer) /\ res = <<>>)
    /\ (op = "Insert" /\ ptr = <<>> /\ Body(pre).kind = "Mapping"
            /\ Body(value).kind = "Mapping") =>
            /\ err = Nil
            /\ Body(root).kind = "Mapping"
            /\ Body(root).content = Body(pre).content \o Body(value).content
            /\ Len(Body(root).content) % 2 = 0
            /\ root.kind = pre.kind

\* The mapping a: y has been merged twice into a root that has a key a: the
\* root holds the key three times.
C6_Witness ==
    /\ op = "Insert"
    /\ ptr = <<>>
    /\ reps = 1
    /\ err = Nil
    /\ Body(value).content = <<KeyA, Str("y")>>
    /\ Cardinality({i \in 1..Len(Body(root).content) :
                      i % 2 = 1 /\ Body(root).content[i].value = <<"a">>}) = 3

\* C4: FindAll never returns an empty list of results with a nil error for a
\* non-empty well-formed pointer, so that Find never reports its bad state.
C4_NoEmptyResult ==
    /\ (op = "FindAll" /\ ptr # <<>> /\ WellFormedPointer(ptr)) =>
            ~(err = Nil /\ res = <<>>)
    /\ op = "Find" => ~ErrorsIs(err, ErrBadState)

\* C10: Insert ends by returning nil or an error; it never faults on an index
\* out of range.
C10_NoPanic == op = "Insert" => ~ErrorsIs(err, Panic)

\* C9: an Insert that returns an error leaves the tree as it was.
C9_ErrorLeavesTree ==
    (op = "Insert" /\ err # Nil /\ ~ErrorsIs(err, Panic)) => root = pre

\* An Insert of two tokens was refused with "cannot insert", and the tree is
\* as it was.
C9_Witness ==
    /\ op = "Insert"
    /\ Len(Toks) = 2
    /\ err = Errorf(ErrCannotInsert)
    /\ root = pre

\* ------------------------------------------- what a pointer names in a tree
\* The reading of a pointer that the claims below are stated against: which
\* children of a node a token names, level by level, with no order of
\* evaluation and no errors.

IsPredicate(t) == HasPrefix(t, <<"~", "{">>)

\* The parse of the text of a predicate token.
Pattern(t) == Unmarshal(Tail(t))

\* The index of the value of the first pair of a mapping that has the key, or 0.
KeyIndex(c, key) ==
    IF \E i \in 1..(Len(c) \div 2) : c[2 * i - 1].value = key
    THEN 2 * Min({i \in 1..(Len(c) \div 2) : c[2 * i - 1].value = key})
    ELSE 0

RECURSIVE Ascending(_)
Ascending(S) == IF S = {} THEN <<>> ELSE <<Min(S)>> \o Ascending(S \ {Min(S)})

\* The children of n that token t names, as indexes into its content, in order.
\* "-" names no child: it stands for the place after the last one.
Sel(n, t) ==
    CASE n.kind = "Mapping" ->
            IF KeyIndex(n.content, t) = 0 THEN <<>> ELSE <<KeyIndex(n.content, t)>>
      [] n.kind = "Sequence" /\ IsPredicate(t) ->
            IF Pattern(t).err # Nil THEN <<>>
            ELSE Ascending({i \in 1..Len(n.content) :
                              isTreeSubset(Pattern(t).node, n.content[i])})
      [] n.kind = "Sequence" /\ ~IsPredicate(t) /\ Atoi(t).ok
            /\ Atoi(t).val >= 0 /\ Atoi(t).val < Len(n.content) -> <<Atoi(t).val + 1>>
      [] OTHER -> <<>>

\* Every node the tokens name under n, as paths from n, in document order.
RECURSIVE Reach(_, _)
RECURSIVE ReachEach(_, _, _)
Reach(n, toks) ==
    IF toks = <<>> THEN << <<>> >> ELSE ReachEach(n, Sel(n, Head(toks)), Tail(toks))

ReachEach(n, idx, toks) ==
    IF idx = <<>> THEN <<>>
    ELSE [i \in 1..Len(Reach(n.content[Head(idx)], toks)) |->
              <<Head(idx)>> \o Reach(n.content[Head(idx)], toks)[i]]
         \o ReachEach(n, Tail(idx), toks)

Nowhere == <<-1>>

\* The one node the tokens lead to when each step takes the first child its
\* token names; Nowhere when some token names none.
RECURSIVE Locate(_, _)
Locate(n, toks) ==
    IF toks = <<>> THEN <<>>
    ELSE IF Sel(n, Head(toks)) = <<>> THEN Nowhere
    ELSE IF Locate(n.content[Sel(n, Head(toks))[1]], Tail(toks)) = Nowhere THEN Nowhere
    ELSE <<Sel(n, Head(toks))[1]>> \o Locate(n.content[Sel(n, Head(toks))[1]], Tail(toks))

\* What goes wrong when token t is applied to node n, if anything.
StepFailure(n, t) ==
    CASE n.kind = "Mapping" /\ Len(n.content) % 2 # 0 -> "malformed"
      [] n.kind = "Mapping" /\ Len(n.content) % 2 = 0 ->
            IF KeyIndex(n.content, t) = 0 THEN "absent key" ELSE "none"
      [] n.kind = "Sequence" /\ IsPredicate(t) ->
            IF Pattern(t).err # Nil THEN "bad predicate" ELSE "none"
      [] n.kind = "Sequence" /\ ~IsPredicate(t) ->
            IF t = <<"-">> THEN "no element"
            ELSE IF ~Atoi(t).ok THEN "not an index"
            ELSE IF Sel(n, t) = <<>> THEN "out of bounds" ELSE "none"
      [] OTHER -> "not a container"

\* What goes wrong when the tokens have led k steps into n, and anywhere on
\* their way.
FailuresAfter(n, toks, k) ==
    {StepFailure(At(n, Reach(n, SubSeq(toks, 1, k))[i]), toks[k + 1]) :
        i \in 1..Len(Reach(n, SubSeq(toks, 1, k)))}

Failures(n, toks) ==
    UNION {FailuresAfter(n, toks, k) : k \in 0..(Len(toks) - 1)} \ {"none"}

\* The document of the last call without its document node, before and after
\* the call, and the value without its own.
PreBody == Body(pre)
RootBody == Body(root)
ValueBody == Body(value)

\* The last token of the last call, and the tokens before it.
LastTok == Toks[Len(Toks)]
Prefix == SubSeq(Toks, 1, Len(Toks) - 1)

\* The tokens before the last lead through existing nodes only, by keys and
\* indexes, to the node the last token is applied to.
PlainPrefix ==
    /\ ptr # <<>>
    /\ WellFormedPointer(ptr)
    /\ \A i \in 1..Len(Prefix) : ~IsPredicate(Prefix[i])
    /\ Locate(PreBody, Prefix) # Nowhere

\* The tokens before the last lead through existing nodes to a node.
LocatedPrefix ==
    /\ ptr # <<>>
    /\ WellFormedPointer(ptr)
    /\ Locate(PreBody, Prefix) # Nowhere

\* The node the last token is applied to.
Parent == At(PreBody, Locate(PreBody, Prefix))

\* ---------------------------------------------------------------- C7

\* The last token of an Insert is applied to an existing sequence.
OnSequence == op = "Insert" /\ LocatedPrefix /\ Parent.kind = "Sequence"

\* The tree with the content of that sequence replaced by c.
WithContent(c) ==
    Put(PreBody, Locate(PreBody, Prefix), [Parent EXCEPT !.content = c])

\* "-" appends, an index inside the sequence inserts before the element at it
\* (nothing replaced), an index outside fails with "out of bounds" and leaves
\* the sequence as it was.
C7_Positions ==
    /\ (OnSequence /\ LastTok = <<"-">>) =>
            /\ err = Nil
            /\ RootBody = WithContent(Parent.content \o <<ValueBody>>)
    /\ (OnSequence /\ LastTok # <<"-">> /\ Atoi(LastTok).ok
            /\ Atoi(LastTok).val \in 0..(Len(Parent.content) - 1)) =>
            /\ err = Nil
            /\ RootBody = WithContent(
                    SubSeq(Parent.content, 1, Atoi(LastTok).val)
                        \o <<ValueBody>>
                        \o SubSeq(Parent.content, Atoi(LastTok).val + 1,
                                  Len(Parent.content)))
    /\ (OnSequence /\ LastTok # <<"-">> /\ Atoi(LastTok).ok
            /\ Atoi(LastTok).val \notin 0..(Len(Parent.content) - 1)) =>
            /\ err = Errorf(ErrOutOfBounds)
            /\ root = pre
    /\ (OnSequence /\ err = Nil) => root.kind = pre.kind

\* C7 as stated: the positions above, and every last token that is neither
\* "-" nor an integer fails with the not-an-index error of strconv.Atoi,
\* the sequence unchanged.
C7_AsStated ==
    /\ C7_Positions
    /\ (OnSequence /\ LastTok # <<"-">> /\ ~Atoi(LastTok).ok) =>
            /\ err = Errorf(ErrAtoi)
            /\ root = pre

\* C7 (amended): the positions above; a last token that is neither "-" nor an
\* integer fails and leaves the sequence unchanged, with the not-an-index
\* error of strconv.Atoi, except that a token starting with ~{ whose text does
\* not parse fails with the parse error instead.
C7_SequenceInsert ==
    /\ C7_Positions
    /\ (OnSequence /\ LastTok # <<"-">> /\ ~Atoi(LastTok).ok) =>
            /\ root = pre
            /\ err = IF IsPredicate(LastTok) /\ Pattern(LastTok).err # Nil
                     THEN Pattern(LastTok).err
                     ELSE Errorf(ErrAtoi)

\* The same append has been made twice: the sequence grew by one each time.
C7_Witness ==
    /\ OnSequence
    /\ LastTok = <<"-">>
    /\ reps = 1
    /\ err = Nil
    /\ Len(At(RootBody, Locate(PreBody, Prefix)).content) = Len(Parent.content) + 1
    /\ Len(Parent.content) >= 3
    /\ Parent.content[Len(Parent.content)] = ValueBody

\* ---------------------------------------------------------------- C8

RECURSIVE Embeds(_, _)
RECURSIVE EmbedsAll(_, _)
Embeds(p, q) ==
    p.kind = q.kind /\ p.value = q.value /\ EmbedsAll(p.content, q.content)

EmbedsAll(ps, qs) ==
    IF ps = <<>> THEN TRUE
    ELSE IF qs = <<>> THEN FALSE
    ELSE IF Embeds(Head(ps), Head(qs)) THEN EmbedsAll(Tail(ps), Tail(qs))
    ELSE EmbedsAll(ps, Tail(qs))

\* The pointer of an Insert names a value the tree holds: the root, or the
\* value of a key of a mapping.
NamesValue ==
    /\ op = "Insert"
    /\ WellFormedPointer(ptr)
    /\ Locate(PreBody, Toks) # Nowhere
    /\ ptr # <<>> => Parent.kind = "Mapping"

Named == At(PreBody, Locate(PreBody, Toks))

\* C2: a successful Insert only adds nodes; and where the pointer names a
\* value that the new one cannot be appended to (a scalar, a sequence, or a
\* mapping when the new value is none) Insert fails with "cannot insert" and
\* the tree is as it was.
C2_NoReplace ==
    /\ (op = "Insert" /\ err = Nil) => Embeds(pre, root)
    /\ (NamesValue /\ (Named.kind \in {"Scalar", "Sequence"}
                        \/ (Named.kind = "Mapping" /\ ValueBody.kind # "Mapping"))) =>
            /\ ErrorsIs(err, ErrCannotInsert)
            /\ root = pre

\* ---------------------------------------------------------------- C1

\* The decimal text of a number.
RECURSIVE Itoa(_)
Itoa(k) ==
    IF k < 10 THEN <<Digits[k + 1]>>
    ELSE Itoa(k \div 10) \o <<Digits[(k % 10) + 1]>>

\* No node: what a location holds that an Insert is about to create.
Absent == [kind |-> "Absent", tag |-> "", value |-> <<>>, content |-> <<>>]

\* The token under which a successful Insert leaves what token t of its
\* pointer named in node n: the index the value landed at for "-", the index
\* of the chosen element for a predicate, the token itself otherwise.
Concrete(n, t) ==
    IF n.kind = "Sequence" /\ t = <<"-">> THEN Itoa(Len(n.content))
    ELSE IF n.kind = "Sequence" /\ IsPredicate(t) THEN Itoa(Sel(n, t)[1] - 1)
    ELSE t

\* What a successful Insert continues in after token t of its pointer in node
\* n, before the call: the value of the key or the element if there is one to
\* continue in, and no node where the call makes a new one (a missing key,
\* the last token of a sequence, "-", an element that is a scalar).
Into(n, t, last) ==
    IF Sel(n, t) = <<>> THEN Absent
    ELSE IF n.kind = "Sequence" /\ (last \/ n.content[Sel(n, t)[1]].kind = "Scalar")
    THEN Absent
    ELSE n.content[Sel(n, t)[1]]

\* The pointer of a successful Insert with its tokens made concrete.
RECURSIVE ConcreteToks(_, _)
ConcreteToks(n, toks) ==
    IF toks = <<>> THEN <<>>
    ELSE <<Concrete(n, Head(toks))>>
            \o ConcreteToks(Into(n, Head(toks), Len(toks) = 1), Tail(toks))

\* What the location of a successful Insert held before the call.
RECURSIVE Held(_, _)
Held(n, toks) ==
    IF toks = <<>> THEN n ELSE Held(Into(n, Head(toks), Len(toks) = 1), Tail(toks))

\* Find on the tree as the last Insert left it, with the concrete pointer.
FoundAgain == Find(root, Join(ConcreteToks(PreBody, Toks)))

\* C1 as stated: after every successful Insert, Find with the concrete pointer
\* returns, without error, a node equal to the value.
C1_AsStated ==
    (op = "Insert" /\ err = Nil) =>
        /\ FoundAgain.err = Nil
        /\ At(root, FoundAgain.res[1]) = ValueBody

\* C1 (amended): after a successful Insert with a non-empty pointer, Find with
\* the concrete pointer returns without error: the value, where the location
\* did not exist or held an empty mapping; and where the location held a
\* mapping and the value is a mapping, that mapping with the pairs of the
\* value after its own.
C1_RoundTrip ==
    (op = "Insert" /\ err = Nil /\ ptr # <<>>) =>
        /\ FoundAgain.err = Nil
        /\ At(root, FoundAgain.res[1]) =
              IF Held(PreBody, Toks).kind = "Mapping" /\ ValueBody.kind = "Mapping"
              THEN [Held(PreBody, Toks) EXCEPT !.content = @ \o ValueBody.content]
              ELSE ValueBody

\* A scalar went in at /-/a of a sequence of four: a mapping was made for it
\* at index 4, and Find gets it at /4/a.
C1_Witness ==
    /\ op = "Insert"
    /\ err = Nil
    /\ Toks = << <<"-">>, <<"a">> >>
    /\ ConcreteToks(PreBody, Toks) = << <<"4">>, <<"a">> >>
    /\ ValueBody = Str("x")
    /\ FoundAgain.err = Nil
    /\ At(root, FoundAgain.res[1]) = Str("x")

\* ---------------------------------------------------------------- C3

\* C3: Find returns a node only when its pointer names exactly one node of the
\* tree, and then that node; when the pointer names more than one, the error
\* is ErrTooManyResults; when a token names a key that the mapping it is
\* applied to does not have, the error is ErrNotFound (errors.Is sees both
\* under what FindAll and Find wrap them in).
C3_ExactlyOne ==
    /\ (op = "Find" /\ err = Nil) =>
            /\ Len(Reach(PreBody, Toks)) = 1
            /\ res = <<At(PreBody, Reach(PreBody, Toks)[1])>>
    /\ (op = "Find" /\ ptr # <<>> /\ WellFormedPointer(ptr)
            /\ Failures(PreBody, Toks) = {} /\ Len(Reach(PreBody, Toks)) > 1) =>
            ErrorsIs(err, ErrTooManyResults)
    /\ (op = "Find" /\ ptr # <<>> /\ WellFormedPointer(ptr)
            /\ Failures(PreBody, Toks) = {"absent key"}) =>
            ErrorsIs(err, ErrNotFound)

====
